---------------------------- MODULE Spec2Model ----------------------------
(***************************************************************************)
(* The SAG codec of pico75player (gif2sag's writeSAGFile, sag2gif's        *)
(* readSAGFile) and the palette functions of package imgcolor              *)
(* (ExtractPalette, NearestColorIndex, sortColors).                        *)
(*                                                                         *)
(* Spec     : one conversion to SAG on a storage device with a given       *)
(*            amount of free space, followed by one conversion back.       *)
(* SpecPal  : one ExtractPalette call followed by NearestColorIndex calls. *)
(***************************************************************************)
EXTENDS Integers, Sequences, FiniteSets, TLC

VARIABLES
    \* ---- inputs of writeSAGFile and the storage device
    frames,      \* []*image.Paletted, each [Dx, Dy, pat]: Rect (0,0)-(Dx,Dy), Pix generated by pat
    delays,      \* []int, GIF delays in 1/100 s
    paletteLen,  \* len(palette); palette is PaletteOf(paletteLen)
    free,        \* bytes the device can still take before Write fails
    \* ---- writeSAGFile
    epc,         \* "start" | "frames" | "done" | "error" | "panic"
    ei, ey, ex,  \* loop counters i, y, x of the frame loop
    file,        \* the bytes of the output file
    writeFailed, \* some file.Write of frame data returned an error
    \* ---- readSAGFile
    dpc,         \* "idle" | "frames" | "done" | "error"
    header,      \* the SAGHeader read by readSAGHeader
    pos,         \* read offset into file
    di, dy, dx,  \* loop counters i, y, x of readSAGFrames
    dcur,        \* Pix of the frame being filled
    dframes,     \* frames[0..i-1] already completed
    retFrames,   \* returned frames (<<>> for nil)
    retDelays,   \* returned delays (<<>> for nil)
    shortRead,   \* some readPixelBlock got fewer bytes than the block needs, without error
    foreign,     \* the file's signature was not written by writeSAGFile
    \* ---- package imgcolor
    ppc,         \* "input" | "extracted" | "panic"
    colorCount,  \* map[color.Color]int as a function on its key set
    maxColors,   \* argument of ExtractPalette
    extracted,   \* result of ExtractPalette
    target,      \* argument of NearestColorIndex
    nearest      \* result of NearestColorIndex, -1 before the first call

encVars == <<frames, delays, paletteLen, free, epc, ei, ey, ex, writeFailed>>
decVars == <<dpc, header, pos, di, dy, dx, dcur, dframes, retFrames, retDelays, shortRead>>
palVars == <<ppc, colorCount, maxColors, extracted, target, nearest>>
codecVars == <<encVars, file, foreign, decVars>>
vars == <<codecVars, palVars>>

-----------------------------------------------------------------------------
(* Bounds of the model *)

MaxFrames == 2
MaxSpare == 3

(* Program constants *)

BlockSize == 8
PaletteSlots == 256
PaletteBytes == 768
HeaderSize == 780
Version == 1

-----------------------------------------------------------------------------
(* Fixed-width integers and byte helpers *)

Uint16(v) == v % 65536
Uint8(v) == v % 256
Min(a, b) == IF a < b THEN a ELSE b

\* mutant of BE16: the low byte first
BE16LittleEndian(v) == <<v % 256, v \div 256>>

\* binary.BigEndian encoding of a uint16
BE16(v) == <<v \div 256, v % 256>>
\* binary.BigEndian decoding of a uint16
FromBE16(hi, lo) == hi * 256 + lo

Take(s, n) == SubSeq(s, 1, n)

\* "SAG"
Signature == <<83, 65, 71>>
\* the signature of a file that is not a SAG file ("GIF")
OtherSignature == <<71, 73, 70>>

-----------------------------------------------------------------------------
(* Colours: color.RGBA values *)

\* color.RGBA.RGBA(): each 8-bit channel v becomes v | v<<8
RGBA16(c) == <<c.R * 257, c.G * 257, c.B * 257, c.A * 257>>

\* the k-th colour of an input palette
Colour(k) == [R |-> (k * 37) % 256, G |-> (k * 101) % 256, B |-> 255 - (k % 256), A |-> 255]

PaletteOf(n) == [k \in 1..n |-> Colour(k)]

\* the palette []color.Color handed to writeSAGFile
palette == PaletteOf(paletteLen)
-----------------------------------------------------------------------------
(* Inputs of one conversion *)

Widths == {3, BlockSize, BlockSize + 1, 65537}
Heights == {1, 2}
Patterns == {0, 1, 2}
Delays == {10, 6553, 6554}
PaletteLens == {2, PaletteSlots, PaletteSlots + 1}

\* more free space than any stream of the model needs
Unlimited == HeaderSize * HeaderSize
Capacities == {3, HeaderSize - 1} \cup {HeaderSize + k : k \in 0..MaxSpare} \cup {Unlimited}

\* Pix[p] of a frame whose content is pattern k: k = 0 is all 0, k = 2 all 255,
\* odd k add the ramp 0, 85, 170, 0, 85, ...
Pattern(k, p) == ((k \div 2) * 255 + (k % 2) * (p % 3) * 85) % 256

\* image.Paletted.ColorIndexAt: 0 outside Rect, else Pix[PixOffset(x, y)]
ColorIndexAt(f, x, y) ==
    IF x \in 0..(f.Dx - 1) /\ y \in 0..(f.Dy - 1)
    THEN Pattern(f.pat, y * f.Dx + x)
    ELSE 0

\* the frame sequences handed to writeSAGFile: ragged ones hold 1x1 frames after the first
FrameSeqs ==
    { [i \in 1..n |-> IF i > 1 /\ ragged
                      THEN [Dx |-> 1, Dy |-> 1, pat |-> pats[i]]
                      ELSE [Dx |-> w, Dy |-> h, pat |-> pats[i]]] :
        <<n, w, h, ragged, pats>> \in
            UNION { {<<n, w, h, r, p>> : w \in Widths, h \in Heights, r \in BOOLEAN,
                                         p \in [1..n -> Patterns]} : n \in 1..MaxFrames } }

\* one delay per frame, as gif.DecodeAll returns them; only the first one varies
DelaySeqs(n) == { [i \in 1..n |-> IF i = 1 THEN d ELSE 20] : d \in Delays }

-----------------------------------------------------------------------------
(* writeSAGFile *)

\* the locals width, height, frameCount, frameDelay
EncWidth == Uint16(frames[1].Dx)
EncHeight == Uint16(frames[1].Dy)
EncFrameCount == Uint16(Len(frames))
EncFrameDelay == Uint16(delays[1] * 10)

\* header.ColorPalette after the loop over palette; slots never assigned stay 0
ColorPaletteBytes(pal) ==
    [j \in 1..PaletteBytes |->
        LET k == (j - 1) \div 3
            ch == ((j - 1) % 3) + 1
        IN  IF k < Len(pal) THEN Uint8(RGBA16(pal[k + 1])[ch] \div 256) ELSE 0]

BuildHeader ==
    [Signature |-> Signature, Version |-> Version,
     Width |-> EncWidth, Height |-> EncHeight,
     FrameCount |-> EncFrameCount, FrameDelay |-> EncFrameDelay,
     ColorPalette |-> ColorPaletteBytes(palette)]

\* binary.Write(file, binary.BigEndian, header): the fields in declaration order
HeaderBytes(h) ==
    h.Signature \o <<h.Version>> \o BE16(h.Width) \o BE16(h.Height)
        \o BE16(h.FrameCount) \o BE16(h.FrameDelay) \o h.ColorPalette

\* mutant of MaskBit: the first column in the lowest bit
MaskBitLowFirst(bit) == 2 ^ bit

\* identicalByte |= 1 << (7 - bit)
MaskBit(bit) == 2 ^ (7 - bit)

\* the number of pixels of the block at column x: the bit loop breaks at x+bit >= width
BlockLen(width, x) == Min(BlockSize, width - x)

\* identicalByte after the bit loop
RECURSIVE IdenticalByte(_, _, _, _, _)
IdenticalByte(i, x, y, width, bit) ==
    IF bit >= BlockSize \/ x + bit >= width THEN 0
    ELSE (IF i > 1 /\ ColorIndexAt(frames[i - 1], x + bit, y) = ColorIndexAt(frames[i], x + bit, y)
          THEN MaskBit(bit) ELSE 0)
         + IdenticalByte(i, x, y, width, bit + 1)

\* pixelBlock after the bit loop
PixelBlock(i, x, y, width) ==
    [b \in 1..BlockLen(width, x) |-> ColorIndexAt(frames[i], x + b - 1, y)]

\* the loop header "for x += 8 / for y++ / for i": the counters after one block
NextBlock(i, y, x, width, height) ==
    IF x + BlockSize < width THEN <<i, y, x + BlockSize>>
    ELSE IF y + 1 < height THEN <<i, y + 1, 0>>
    ELSE <<i + 1, 0, 0>>

\* lines 290-323: header construction, os.Create, binary.Write
EncodeStart ==
    /\ epc = "start"
    /\ IF Len(palette) > PaletteSlots
       THEN \* header.ColorPalette[i*3] with i >= 256: index out of range
            /\ epc' = "panic"
            /\ UNCHANGED <<file, free, ei, ey, ex>>
       ELSE LET bytes == HeaderBytes(BuildHeader)
                n == Min(Len(bytes), free)
            IN  /\ file' = Take(bytes, n)
                /\ free' = free - n
                /\ IF n < Len(bytes)
                   THEN epc' = "error" /\ UNCHANGED <<ei, ey, ex>>
                   ELSE epc' = "frames" /\ ei' = 1 /\ ey' = 0 /\ ex' = 0
    /\ UNCHANGED <<frames, delays, paletteLen, writeFailed>>
    /\ UNCHANGED <<foreign, decVars, palVars>>

\* lines 326-353: one iteration of the x loop, and "return nil" after the last one
EncodeBlock ==
    /\ epc = "frames"
    /\ LET mask == <<IdenticalByte(ei, ex, ey, EncWidth, 0)>>
           block == PixelBlock(ei, ex, ey, EncWidth)
           n1 == Min(1, free)
           n2 == Min(Len(block), free - n1)
           nxt == NextBlock(ei, ey, ex, EncWidth, EncHeight)
       IN  /\ file' = file \o Take(mask, n1) \o Take(block, n2)
           /\ free' = free - n1 - n2
           /\ writeFailed' = (writeFailed \/ n1 < 1 \/ n2 < Len(block))
           /\ ei' = nxt[1] /\ ey' = nxt[2] /\ ex' = nxt[3]
           /\ epc' = IF nxt[1] > Len(frames) THEN "done" ELSE "frames"
    /\ UNCHANGED <<frames, delays, paletteLen>>
    /\ UNCHANGED <<foreign, decVars, palVars>>

-----------------------------------------------------------------------------
(* readSAGFile *)

\* binary.Read(file, binary.BigEndian, &header) on the first 780 bytes
ParseHeader(b) ==
    [Signature |-> SubSeq(b, 1, 3), Version |-> b[4],
     Width |-> FromBE16(b[5], b[6]), Height |-> FromBE16(b[7], b[8]),
     FrameCount |-> FromBE16(b[9], b[10]), FrameDelay |-> FromBE16(b[11], b[12]),
     ColorPalette |-> SubSeq(b, 13, HeaderSize)]

NoHeader == [Signature |-> <<>>, Version |-> 0, Width |-> 0, Height |-> 0,
             FrameCount |-> 0, FrameDelay |-> 0, ColorPalette |-> <<>>]

\* image.NewPaletted(image.Rect(0, 0, width, height), palette).Pix: all zero
NewPix(width, height) == [p \in 1..(width * height) |-> 0]

\* mutant of BlockBufLen: always a full block
BlockBufLenFull(width, x) == BlockSize

\* make([]byte, 8), or make([]byte, width-x) when x+8 > width
BlockBufLen(width, x) == IF x + BlockSize > width THEN width - x ELSE BlockSize

\* file.Read(buf) at offset p: the number of bytes read; 0 is io.EOF
ReadLen(want, p) == Min(want, Len(file) - p)

\* readPixelBlock's buffer after file.Read got n bytes at offset p: the rest stays 0
ReadPixelBlock(want, n, p) == [b \in 1..want |-> IF b <= n THEN file[p + b] ELSE 0]

\* applyPixelBlock: frame.SetColorIndex(x+bit, y, pixelBlock[bit]) while x+bit < width
ApplyPixelBlock(pix, pixelBlock, x, y, width) ==
    [p \in 1..Len(pix) |->
        LET bit == (p - 1) - (y * width + x)
        IN  IF bit \in 0..(Len(pixelBlock) - 1) /\ x + bit < width
            THEN pixelBlock[bit + 1]
            ELSE pix[p]]

\* delays[i] = frameDelay / 10
DecDelays(h) == [i \in 1..h.FrameCount |-> h.FrameDelay \div 10]

\* a file that is not a SAG file but is laid out like one: another signature
ForeignFile ==
    /\ epc \in {"done", "error"}
    /\ dpc = "idle"
    /\ ~foreign
    /\ Len(file) >= Len(OtherSignature)
    /\ file' = OtherSignature \o SubSeq(file, Len(OtherSignature) + 1, Len(file))
    /\ foreign' = TRUE
    /\ UNCHANGED <<encVars, decVars, palVars>>

\* readSAGFile up to the first block: os.Open, readSAGHeader, the setup of readSAGFrames
DecodeStart ==
    /\ epc \in {"done", "error"}
    /\ dpc = "idle"
    /\ IF Len(file) < HeaderSize
       THEN \* binary.Read: io.EOF or io.ErrUnexpectedEOF
            /\ dpc' = "error"
            /\ UNCHANGED <<header, pos, di, dy, dx, dcur, dframes, retFrames, retDelays>>
       ELSE LET h == ParseHeader(Take(file, HeaderSize))
            IN  /\ header' = h
                /\ pos' = HeaderSize
                /\ dframes' = <<>>
                /\ IF h.FrameCount = 0 \/ h.Width = 0 \/ h.Height = 0
                   THEN \* no block is read: every frame is returned as allocated
                        /\ dpc' = "done"
                        /\ retFrames' = [i \in 1..h.FrameCount |->
                                            [Dx |-> h.Width, Dy |-> h.Height,
                                             Pix |-> NewPix(h.Width, h.Height)]]
                        /\ retDelays' = DecDelays(h)
                        /\ UNCHANGED <<di, dy, dx, dcur>>
                   ELSE /\ dpc' = "frames"
                        /\ di' = 1 /\ dy' = 0 /\ dx' = 0
                        /\ dcur' = NewPix(h.Width, h.Height)
                        /\ UNCHANGED <<retFrames, retDelays>>
    /\ UNCHANGED <<encVars, file, foreign, shortRead, palVars>>

\* lines 62-82: one iteration of the x loop of readSAGFrames
DecodeBlock ==
    /\ dpc = "frames"
    /\ LET width == header.Width
           height == header.Height
           p1 == Min(pos + 1, Len(file))        \* skipIdenticalByte, its error dropped
           want == BlockBufLen(width, dx)
           n == ReadLen(want, p1)
           pix == ApplyPixelBlock(dcur, ReadPixelBlock(want, n, p1), dx, dy, width)
           nxt == NextBlock(di, dy, dx, width, height)
           done == IF nxt[1] > di THEN Append(dframes, [Dx |-> width, Dy |-> height, Pix |-> pix])
                   ELSE dframes
       IN  IF n = 0
           THEN \* file.Read returned io.EOF: return nil, nil, err
                /\ dpc' = "error"
                /\ retFrames' = <<>> /\ retDelays' = <<>>
                /\ UNCHANGED <<pos, di, dy, dx, dcur, dframes, shortRead>>
           ELSE /\ pos' = p1 + n
                /\ shortRead' = (shortRead \/ n < want)
                /\ di' = nxt[1] /\ dy' = nxt[2] /\ dx' = nxt[3]
                /\ dframes' = done
                /\ dcur' = IF nxt[1] > di THEN NewPix(width, height) ELSE pix
                /\ IF nxt[1] > header.FrameCount
                   THEN /\ dpc' = "done"
                        /\ retFrames' = done
                        /\ retDelays' = DecDelays(header)
                   ELSE /\ dpc' = "frames"
                        /\ UNCHANGED <<retFrames, retDelays>>
    /\ UNCHANGED <<encVars, file, foreign, header, palVars>>

-----------------------------------------------------------------------------
(* gif2sag followed by sag2gif *)

PalIdle ==
    /\ ppc = "off"
    /\ colorCount = <<>>
    /\ maxColors = 0
    /\ extracted = <<>>
    /\ target = Colour(0)
    /\ nearest = -1

Init ==
    /\ frames \in FrameSeqs
    /\ \/ \* conversions on a device with room for the whole stream
          /\ delays \in DelaySeqs(Len(frames))
          /\ paletteLen \in PaletteLens
          /\ free = Unlimited
       \/ \* conversions on a device that fills up
          /\ delays = [i \in 1..Len(frames) |-> 10 * i]
          /\ paletteLen = 2
          /\ free \in Capacities
    /\ epc = "start"
    /\ ei = 0 /\ ey = 0 /\ ex = 0
    /\ file = <<>>
    /\ writeFailed = FALSE
    /\ dpc = "idle"
    /\ header = NoHeader
    /\ pos = 0
    /\ di = 0 /\ dy = 0 /\ dx = 0
    /\ dcur = <<>>
    /\ dframes = <<>>
    /\ retFrames = <<>>
    /\ retDelays = <<>>
    /\ shortRead = FALSE
    /\ foreign = FALSE
    /\ PalIdle

Next ==
    \/ EncodeStart
    \/ EncodeBlock
    \/ ForeignFile
    \/ DecodeStart
    \/ DecodeBlock

Spec == Init /\ [][Next]_vars

-----------------------------------------------------------------------------
(* Package imgcolor *)

MaxCount == 2
MaxCap == 5

\* int(^uint(0) >> 1) where int has 32 bits; every distance is at most 3 * 255^2
MaxInt == 2147483647

\* the colours of the frequency tables: black, transparent black, dark grey, red
TableColours ==
    {[R |-> 0, G |-> 0, B |-> 0, A |-> 255], [R |-> 0, G |-> 0, B |-> 0, A |-> 0],
     [R |-> 10, G |-> 10, B |-> 10, A |-> 255], [R |-> 255, G |-> 0, B |-> 0, A |-> 255]}

\* the colours looked up in a palette
Targets ==
    {[R |-> 5, G |-> 5, B |-> 5, A |-> 255], [R |-> 250, G |-> 250, B |-> 250, A |-> 255],
     [R |-> 255, G |-> 0, B |-> 0, A |-> 255], [R |-> 0, G |-> 0, B |-> 1, A |-> 0]}

\* map[color.Color]int: the pixel counts of the colours that occur
ColorCounts == UNION { [S -> 1..MaxCount] : S \in SUBSET TableColours }

\* the arguments maxColors
MaxColorsArgs == (-2)..MaxCap

\* every order in which the elements of S can be listed
Orders(S) == { s \in [1..Cardinality(S) -> S] : \A i, j \in DOMAIN s : s[i] = s[j] => i = j }

\* "for c, count := range colorCount": the runtime picks the iteration order
MapOrders(m) == Orders(DOMAIN m)

\* sort.Slice with less = Count greater: not stable, so every arrangement of colors
\* with descending counts is a possible result
SortSliceByCount(colors, m) ==
    { s \in Orders({colors[i] : i \in DOMAIN colors}) :
        \A i, j \in DOMAIN s : i < j => m[s[i]] >= m[s[j]] }

\* the less function of sortColors: count descending, then R, G, B, A ascending
SortColorsLess(a, b, m) ==
    LET x == RGBA16(a)
        y == RGBA16(b)
    IN  IF m[a] = m[b]
        THEN IF x[1] # y[1] THEN x[1] < y[1]
             ELSE IF x[2] # y[2] THEN x[2] < y[2]
             ELSE IF x[3] # y[3] THEN x[3] < y[3]
             ELSE x[4] < y[4]
        ELSE m[a] > m[b]

\* sortColors: sort.SliceStable under a total order has one result
SortColors(m) ==
    CHOOSE s \in Orders(DOMAIN m) : \A i, j \in DOMAIN s : i < j => SortColorsLess(s[i], s[j], m)

\* mutant of PaletteLength: every maxColors <= 0 asks for all colours
PaletteLengthNonPositive(mc, len) == IF mc <= 0 \/ mc > len THEN len ELSE mc

\* "if maxColors == -1 || maxColors > len(colors) { maxColors = len(colors) }"
PaletteLength(mc, len) == IF mc = -1 \/ mc > len THEN len ELSE mc

\* ExtractPalette: the map is listed, sorted by count, and cut to maxColors
ExtractPaletteCall ==
    /\ ppc = "input"
    /\ \E colors \in MapOrders(colorCount) :
         \E sorted \in SortSliceByCount(colors, colorCount) :
            LET n == PaletteLength(maxColors, Len(sorted))
            IN  IF n < 0
                THEN \* make([]color.Color, n): len out of range
                     ppc' = "panic" /\ UNCHANGED extracted
                ELSE ppc' = "extracted" /\ extracted' = Take(sorted, n)
    /\ UNCHANGED <<colorCount, maxColors, target, nearest, codecVars>>

\* colorDistanceSquared: over the 16-bit channels shifted down to 8 bits
colorDistanceSquared(c1, c2) ==
    LET a == RGBA16(c1)
        b == RGBA16(c2)
        rd == (a[1] \div 256) - (b[1] \div 256)
        gd == (a[2] \div 256) - (b[2] \div 256)
        bd == (a[3] \div 256) - (b[3] \div 256)
    IN  rd * rd + gd * gd + bd * bd

\* mutant of Closer: an equally near later entry replaces the earlier one
CloserOrEqual(dist, minDist) == dist <= minDist

\* "if dist < minDist"
Closer(dist, minDist) == dist < minDist

\* the loop of NearestColorIndex from palette[i-1] on, with minDist and minIndex so far
RECURSIVE NearestLoop(_, _, _, _, _)
NearestLoop(pal, t, i, minDist, minIndex) ==
    IF i > Len(pal) THEN minIndex
    ELSE LET dist == colorDistanceSquared(t, pal[i])
         IN  IF Closer(dist, minDist)
             THEN NearestLoop(pal, t, i + 1, dist, i - 1)
             ELSE NearestLoop(pal, t, i + 1, minDist, minIndex)

NearestColorIndex(pal, t) == NearestLoop(pal, t, 1, MaxInt, 0)

\* NearestColorIndex(palette, targetColor) on the extracted palette
NearestColorIndexCall ==
    /\ ppc = "extracted"
    /\ \E t \in Targets :
         /\ target' = t
         /\ nearest' = NearestColorIndex(extracted, t)
    /\ UNCHANGED <<ppc, colorCount, maxColors, extracted, codecVars>>

CodecIdle ==
    /\ frames = <<>> /\ delays = <<>> /\ paletteLen = 0 /\ free = 0
    /\ epc = "off" /\ ei = 0 /\ ey = 0 /\ ex = 0
    /\ file = <<>> /\ writeFailed = FALSE /\ foreign = FALSE
    /\ dpc = "off" /\ header = NoHeader /\ pos = 0
    /\ di = 0 /\ dy = 0 /\ dx = 0
    /\ dcur = <<>> /\ dframes = <<>> /\ retFrames = <<>> /\ retDelays = <<>>
    /\ shortRead = FALSE

InitPal ==
    /\ ppc = "input"
    /\ colorCount \in ColorCounts
    /\ maxColors \in MaxColorsArgs
    /\ extracted = <<>>
    /\ target = Colour(0)
    /\ nearest = -1
    /\ CodecIdle

NextPal ==
    \/ ExtractPaletteCall
    \/ NearestColorIndexCall

SpecPal == InitPal /\ [][NextPal]_vars

-----------------------------------------------------------------------------
(* Properties of the codec, checked under Spec *)

\* the inputs writeSAGFile is specified for
SameDimensions == \A i \in 1..Len(frames) : frames[i].Dx = frames[1].Dx /\ frames[i].Dy = frames[1].Dy
ValidInput ==
    /\ SameDimensions
    /\ frames[1].Dx \in 1..65535
    /\ frames[1].Dy \in 1..65535
    /\ Len(frames) \in 1..65535
    /\ paletteLen <= PaletteSlots

\* the file is the complete stream writeSAGFile produced for a valid input
CompleteStream == ValidInput /\ epc = "done" /\ ~writeFailed /\ ~foreign

\* the decoder returned exactly the encoded frames
FramesRestored ==
    /\ Len(retFrames) = Len(frames)
    /\ \A i \in 1..Len(frames) :
         /\ retFrames[i].Dx = frames[1].Dx
         /\ retFrames[i].Dy = frames[1].Dy
         /\ \A x \in 0..(frames[1].Dx - 1), y \in 0..(frames[1].Dy - 1) :
              retFrames[i].Pix[y * frames[1].Dx + x + 1] = ColorIndexAt(frames[i], x, y)

\* the decoder returned frameCount delays, each delays[0]
DelaysUniform ==
    /\ Len(retDelays) = Len(frames)
    /\ \A i \in 1..Len(retDelays) : retDelays[i] = delays[1]

\* C1 as claimed: decoding the stream written for any valid frames, palette and
\* delay list succeeds and returns the encoded indices and frameCount delays
\* equal to delays[0].
C1_RoundTripAnyDelay ==
    CompleteStream =>
        /\ dpc # "error"
        /\ dpc = "done" => FramesRestored /\ DelaysUniform

\* C1 amended: the same, for delay lists whose first entry times 10 fits the
\* 16-bit frameDelay field (delays[0] in 0..6553).
C1_RoundTrip ==
    (CompleteStream /\ delays[1] \in 0..6553) =>
        /\ dpc # "error"
        /\ dpc = "done" => FramesRestored /\ DelaysUniform

\* C1 witness: a two-frame, two-block animation with different frames and the
\* largest representable delay has been decoded.
C1_Witness ==
    /\ CompleteStream /\ dpc = "done"
    /\ Len(frames) = 2 /\ frames[1].Dx = BlockSize + 1 /\ frames[1].Dy = 2
    /\ frames[1].pat # frames[2].pat
    /\ delays = <<6553, 20>>
    /\ retDelays = <<6553, 6553>>

\* C2 as claimed: a stream cut anywhere after the header is never decoded
\* successfully: the decoder returns an error and no frames.
C2_TruncationFailsClosed ==
    (ValidInput /\ ~foreign /\ writeFailed /\ Len(file) >= HeaderSize /\ dpc \notin {"idle", "frames"}) =>
        /\ dpc = "error"
        /\ retFrames = <<>>

\* C4 as claimed: writeSAGFile fails, writing no frame data and never reporting
\* success, whenever the frames differ in size, a dimension or the frame count
\* exceeds 65535, or the palette has more than 256 entries (a crash is counted
\* here as failing, although it returns no error).
C4_EncoderBoundsChecked ==
    ~ValidInput => epc \in {"start", "error", "panic"}

\* C5 as claimed: decoding a file of fewer than 780 bytes, or one whose first
\* three bytes are not "SAG", ends with an error before any frame data is read.
C5_HeaderValidated ==
    (dpc # "idle" /\ (Len(file) < HeaderSize \/ SubSeq(file, 1, 3) # <<83, 65, 71>>)) =>
        /\ dpc = "error"
        /\ pos <= HeaderSize

\* C9 as claimed: once a write of frame data has failed, writeSAGFile returns the
\* error; it neither goes on writing nor reports success.
C9_WriteErrorsPropagated ==
    writeFailed => epc = "error"

\* the byte the header layout puts at offset j (1-based) for the given input
LayoutByte(j) ==
    LET fields == <<frames[1].Dx, frames[1].Dy, Len(frames), (delays[1] * 10) % 65536>>
        k == (j - 13) \div 3
        c == palette[k + 1]
    IN  CASE j = 1 -> 83
          [] j = 2 -> 65
          [] j = 3 -> 71
          [] j = 4 -> 1
          [] j \in 5..12 -> IF j % 2 = 1 THEN fields[(j - 3) \div 2] \div 256
                                         ELSE fields[(j - 4) \div 2] % 256
          [] OTHER -> IF k >= paletteLen THEN 0
                      ELSE IF (j - 13) % 3 = 0 THEN c.R
                      ELSE IF (j - 13) % 3 = 1 THEN c.G
                      ELSE c.B

\* C8: for every valid input, whatever has been written of the file starts with
\* the header layout ("SAG", 0x01, width, height, frameCount, frameDelay
\* big-endian, 256 palette entries R,G,B zero-filled), and frame data is written
\* only after all 780 header bytes.
C8_HeaderLayout ==
    (ValidInput /\ ~foreign) =>
        /\ \A j \in 1..Min(Len(file), HeaderSize) : file[j] = LayoutByte(j)
        /\ epc \in {"frames", "done"} => Len(file) >= HeaderSize
        /\ Len(file) > HeaderSize => epc \in {"frames", "done"}

\* C8 witness: a full stream of two 9x2 frames with a 2-entry palette is on disk.
C8_Witness ==
    /\ CompleteStream
    /\ Len(frames) = 2 /\ frames[1].Dx = BlockSize + 1 /\ frames[1].Dy = 2
    /\ paletteLen = 2 /\ delays[1] = 10
    /\ Len(file) > HeaderSize
    /\ SubSeq(file, 1, 18) = <<83, 65, 71, 1, 0, 9, 0, 2, 0, 2, 0, 100, 37, 101, 254, 74, 202, 253>>
    /\ file[19] = 0 /\ file[HeaderSize] = 0

\* bytes one row of a frame takes in the stream: per block one mask byte and its indices
BlocksPerRow == (frames[1].Dx + BlockSize - 1) \div BlockSize
RowBytes == BlocksPerRow + frames[1].Dx

\* the place of the o-th frame-data byte (0-based): frame, row, block column, and
\* position in the block (0 is the mask byte)
PlaceOf(o) ==
    LET perFrame == frames[1].Dy * RowBytes
        r == (o % perFrame) % RowBytes
    IN  [i |-> (o \div perFrame) + 1,
         y |-> (o % perFrame) \div RowBytes,
         x |-> (r \div (BlockSize + 1)) * BlockSize,
         p |-> r % (BlockSize + 1)]

\* bit (7 - b) of byte m
BitOf(m, b) == (m \div (2 ^ (7 - b))) % 2

\* the o-th frame-data byte is what the block layout asks for
BlockByteOk(o) ==
    LET pl == PlaceOf(o)
        v == file[HeaderSize + 1 + o]
    IN  IF pl.p = 0
        THEN \A b \in 0..7 :
                BitOf(v, b) = 1 <=>
                    /\ pl.i > 1
                    /\ pl.x + b < frames[1].Dx
                    /\ ColorIndexAt(frames[pl.i], pl.x + b, pl.y)
                         = ColorIndexAt(frames[pl.i - 1], pl.x + b, pl.y)
        ELSE v = ColorIndexAt(frames[pl.i], pl.x + pl.p - 1, pl.y)

\* C10: for a valid input the frame data is, frame by frame, row by row, block by
\* block, one mask byte followed by the min(8, width - x) indices of the block;
\* mask bit (7 - b) is set exactly when i > 0, x + b < width and frames i and i-1
\* agree at (x + b, y); the finished stream holds every block.
C10_BlockEncoding ==
    (ValidInput /\ ~foreign) =>
        /\ \A o \in 0..(Len(file) - HeaderSize - 1) : BlockByteOk(o)
        /\ Len(file) <= HeaderSize + Len(frames) * frames[1].Dy * RowBytes
        /\ (epc = "done" /\ ~writeFailed) =>
              Len(file) = HeaderSize + Len(frames) * frames[1].Dy * RowBytes

\* C10 witness: a finished stream of two 9-wide frames whose second frame has a
\* mask with some bits set and some clear, and a one-pixel last block.
C10_Witness ==
    /\ CompleteStream
    /\ Len(frames) = 2 /\ frames[1].Dx = BlockSize + 1 /\ frames[1].Dy = 1
    /\ frames[1].pat = 0 /\ frames[2].pat = 1
    /\ SubSeq(file, HeaderSize + 1, Len(file))
         = <<0, 0, 0, 0, 0, 0, 0, 0, 0, 0, 0,
             146, 0, 85, 170, 0, 85, 170, 0, 85, 0, 170>>

-----------------------------------------------------------------------------
(* Properties of package imgcolor, checked under SpecPal *)

\* the number of distinct colours of the table
Distinct == Cardinality(DOMAIN colorCount)

\* C3 as claimed: ExtractPalette returns the colours by descending count with
\* equal counts in ascending (R,G,B,A) order, the same palette on every run.
C3_PaletteOrderDeterministic ==
    ppc = "extracted" =>
        \A i \in 1..Len(extracted) : extracted[i] = SortColors(colorCount)[i]

\* the returned entries are distinct colours of the table
EntriesFromTable ==
    /\ \A i \in 1..Len(extracted) : extracted[i] \in DOMAIN colorCount
    /\ \A i, j \in 1..Len(extracted) : extracted[i] = extracted[j] => i = j

\* C6 as claimed: ExtractPalette returns normally for every maxColors, with
\* min(maxColors, d) entries when maxColors >= 0 and all d entries when
\* maxColors is any negative number.
C6_PaletteCapAnyNegative ==
    ppc # "input" =>
        /\ ppc = "extracted"
        /\ EntriesFromTable
        /\ maxColors >= 0 => Len(extracted) = Min(maxColors, Distinct)
        /\ maxColors < 0 => Len(extracted) = Distinct

\* C6 amended: ExtractPalette returns min(maxColors, d) entries when
\* maxColors >= 0 and all d entries when maxColors = -1; for maxColors < -1 it
\* does not return (it panics allocating a slice of negative length).
C6_PaletteCap ==
    ppc # "input" =>
        /\ maxColors >= -1 => ppc = "extracted" /\ EntriesFromTable
        /\ maxColors >= 0 => Len(extracted) = Min(maxColors, Distinct)
        /\ maxColors = -1 => Len(extracted) = Distinct
        /\ maxColors < -1 => ppc = "panic"

\* C6 witness: a table of four colours has been cut to a palette of two.
C6_Witness ==
    /\ ppc = "extracted"
    /\ Distinct = 4 /\ maxColors = 2
    /\ Len(extracted) = 2

\* squared distance over the 8-bit R, G, B channels, alpha ignored
Dist8(c, t) == (c.R - t.R) * (c.R - t.R) + (c.G - t.G) * (c.G - t.G) + (c.B - t.B) * (c.B - t.B)

\* C7: on a palette of at least one entry NearestColorIndex returns the smallest
\* index whose entry is at minimal squared 8-bit RGB distance from the colour;
\* on a single-entry palette that is 0.
C7_NearestIndex ==
    (ppc = "extracted" /\ nearest # -1 /\ Len(extracted) >= 1) =>
        /\ nearest \in 0..(Len(extracted) - 1)
        /\ \A i \in 0..(Len(extracted) - 1) :
              /\ Dist8(extracted[nearest + 1], target) <= Dist8(extracted[i + 1], target)
              /\ i < nearest => Dist8(extracted[nearest + 1], target) < Dist8(extracted[i + 1], target)
        /\ Len(extracted) = 1 => nearest = 0

\* C7 witness: three entries are equally near the colour, the nearest ones, and
\* the first of them, which is not the first entry of the palette, was returned.
C7_Witness ==
    /\ ppc = "extracted" /\ Len(extracted) = 4
    /\ target = [R |-> 5, G |-> 5, B |-> 5, A |-> 255]
    /\ extracted[1] = [R |-> 255, G |-> 0, B |-> 0, A |-> 255]
    /\ nearest = 1

=============================================================================
